---- MODULE Spec2Model ----
(***************************************************************************)
(* Model of framework/wazuh/rbac/decorators.py: the RBAC permission        *)
(* resolution (_permissions_processing and its helpers), the required      *)
(* resource parser (_get_required_permissions) and the authorization gate  *)
(* (expose_resources.wrapper), together with the process-wide mode and     *)
(* switch_mode.                                                            *)
(*                                                                         *)
(* A resource string "type:attribute:value" is the record [p, v] with      *)
(* p = "type:attribute" (what the code obtains with split(':')), a policy  *)
(* statement is [p, v, e] with e the effect.  A Python dict, whose key     *)
(* order the gate depends on, is a sequence of [k, s] entries in insertion *)
(* order.                                                                  *)
(***************************************************************************)
EXTENDS Integers, Sequences, FiniteSets, TLC

VARIABLES
    mode,            \* module global `mode`
    actions,         \* decorator argument `actions`
    resources,       \* decorator argument `resources` (parsed templates)
    kwargs,          \* wrapper's kwargs (without 'rbac')
    rbac,            \* kwargs['rbac']: action -> ordered statements
    target_params,   \* wrapper local
    res_list,        \* req_permissions[action], the same list for every action
    add_denied,      \* wrapper local
    allow_match,     \* _match_permissions local (the wrapper's `allow`)
    act_i,           \* position of _match_permissions' loop
    stmt_i,          \* position of _permissions_processing's statement loop
    black_negation,  \* _permissions_processing local
    original_kwargs, \* wrapper local
    func_called,     \* the wrapped operation has been invoked
    post_called,     \* the post-processor has been invoked
    pc               \* position of the wrapper

vars == <<mode, actions, resources, kwargs, rbac, target_params, res_list, add_denied,
          allow_match, act_i, stmt_i, black_negation, original_kwargs, func_called,
          post_called, pc>>

-----------------------------------------------------------------------------
(* Bounds of the explored inputs *)

\* statements per action in the resolver specification
MaxStmts == 3
\* statements per action in the gate specifications
MaxStmtsGate == 1

-----------------------------------------------------------------------------
(* Directory fixtures: what the enumeration collaborators return *)

AgentsInfo == {"001", "010", "011"}
Groups == {"groupA"}
GroupMembers == [g \in Groups |-> {"010", "011"}]
Roles == {"r1"}
Policies == {"p1"}
Users == {"wazuh"}

expand_group(value) ==
    IF value = "*" THEN UNION {GroupMembers[g] : g \in Groups}
    ELSE IF value \in Groups THEN GroupMembers[value]
    ELSE {}

-----------------------------------------------------------------------------
(* Python dict with insertion order *)

Keys(d) == {d[i].k : i \in 1..Len(d)}

Get(d, k) == d[CHOOSE i \in 1..Len(d) : d[i].k = k].s

\* d.get(k, set()): the set under k, empty when the key is missing
GetOrEmpty(d, k) == IF k \in Keys(d) THEN Get(d, k) ELSE {}

\* d[k] = s: in place for an existing key, appended for a new one
Put(d, k, s) ==
    IF k \in Keys(d)
    THEN [i \in 1..Len(d) |-> IF d[i].k = k THEN [k |-> k, s |-> s] ELSE d[i]]
    ELSE Append(d, [k |-> k, s |-> s])

Pop(d, k) == SelectSeq(d, LAMBDA e : e.k # k)

-----------------------------------------------------------------------------
(* _expand_resource.  The wildcards of role:id and policy:id are returned as    *)
(* Python lists, on which the set operations of the resolver raise; they are   *)
(* sets here, and no explored input has a statement or a requirement of these  *)
(* two prefixes.                                                               *)

_expand_resource(r) ==
    IF r.p = "agent:group" THEN expand_group(r.v)
    ELSE IF r.v = "*"
         THEN CASE r.p = "agent:id" -> AgentsInfo
                [] r.p = "group:id" -> Groups
                [] r.p = "role:id" -> Roles
                [] r.p = "policy:id" -> Policies
                [] r.p = "user:id" -> Users
                [] OTHER -> {}
         ELSE {r.v}

(* _use_expanded_resource with a deny that removes nothing unless it is a wildcard *)

UseExpandedResourceDenyKeeps(effect, final_permissions, expanded_resource, req_resources_value, delete) ==
    LET expanded == IF "*" \notin req_resources_value
                    THEN expanded_resource \cap req_resources_value
                    ELSE expanded_resource
    IN  IF effect = "allow" THEN final_permissions \cup expanded
        ELSE IF delete THEN {}
        ELSE final_permissions

(* _use_expanded_resource without the clearing of a wildcard deny *)

UseExpandedResourceNoClear(effect, final_permissions, expanded_resource, req_resources_value, delete) ==
    LET expanded == IF "*" \notin req_resources_value
                    THEN expanded_resource \cap req_resources_value
                    ELSE expanded_resource
    IN  IF effect = "allow" THEN final_permissions \cup expanded
        ELSE final_permissions \ expanded

(* _use_expanded_resource: the new value of final_permissions *)

_use_expanded_resource(effect, final_permissions, expanded_resource, req_resources_value, delete) ==
    LET expanded == IF "*" \notin req_resources_value
                    THEN expanded_resource \cap req_resources_value
                    ELSE expanded_resource
    IN  IF effect = "allow" THEN final_permissions \cup expanded
        ELSE IF delete THEN {}
        ELSE final_permissions \ expanded

(* _black_mode_expansion: the new final_user_permissions and black_negation *)

_black_mode_expansion(final_user_permissions, identifier, negation) ==
    IF identifier \notin negation
    THEN [final |-> Put(final_user_permissions, identifier,
                        _expand_resource([p |-> identifier, v |-> "*"])),
          negation |-> negation \cup {identifier}]
    ELSE [final |-> final_user_permissions, negation |-> negation]

(* _black_mode_sanitize without the intersection with the required values *)

BlackModeSanitizeKeysOnly(final_user_permissions, req_resources_value) ==
    SelectSeq(final_user_permissions, LAMBDA e : e.k \in DOMAIN req_resources_value)

(* _black_mode_sanitize *)

_black_mode_sanitize(final_user_permissions, req_resources_value) ==
    LET kept == SelectSeq(final_user_permissions,
                          LAMBDA e : e.k \in DOMAIN req_resources_value)
    IN  [i \in 1..Len(kept) |->
            IF req_resources_value[kept[i].k] # {"*"}
            THEN [k |-> kept[i].k, s |-> kept[i].s \cap req_resources_value[kept[i].k]]
            ELSE kept[i]]

(* _permissions_processing, lines 139-143: prefix -> required values *)

ReqResourcesValue(req_resources) ==
    [p \in {req_resources[i].p : i \in 1..Len(req_resources)} |->
        {req_resources[i].v : i \in {j \in 1..Len(req_resources) : req_resources[j].p = p}}]

(* _permissions_processing, lines 148-156: default allow of the black mode *)

RECURSIVE DefaultAllowFrom(_, _, _)
DefaultAllowFrom(i, req_resources, final) ==
    IF i > Len(req_resources) THEN final
    ELSE LET identifier == req_resources[i].p
             next == IF identifier = "*:*"
                     THEN Put(final, "*:*", {"*"})
                     ELSE Put(final, identifier,
                              GetOrEmpty(final, identifier) \cup _expand_resource(req_resources[i]))
         IN  DefaultAllowFrom(i + 1, req_resources, next)

DefaultAllow(req_resources, final) == DefaultAllowFrom(1, req_resources, final)

(* _permissions_processing, lines 162-182: one statement of the loop, with the *)
(* value m that line 170 reads from `mode`.  StatementIdentifier is lines      *)
(* 162-165: the prefix under which a statement is accumulated.                 *)

\* the statement's own prefix, agent:group not remapped
StatementIdentifierNoRemap(st) == st.p

StatementIdentifier(st) == IF st.p = "agent:group" THEN "agent:id" ELSE st.p

ProcessStatement(m, req_resources_value, st, final, negation) ==
    LET identifier == StatementIdentifier(st)
        f1 == IF identifier \in Keys(final) THEN final ELSE Put(final, identifier, {})
        be == IF m = "black" THEN _black_mode_expansion(f1, identifier, negation)
              ELSE [final |-> f1, negation |-> negation]
        f2 == be.final
        expanded_resource == _expand_resource(st)
    IN  IF identifier \in DOMAIN req_resources_value
        THEN LET req == req_resources_value[identifier]
                 f3 == IF identifier = "*:*"
                          \/ (st.e = "allow" /\ "*" \notin req /\ st.v = "*")
                       THEN Put(f2, identifier, Get(f2, identifier) \cup (req \ expanded_resource))
                       ELSE f2
             IN  [final |-> Put(f3, identifier,
                                _use_expanded_resource(st.e, Get(f3, identifier), expanded_resource,
                                                       req, st.v = "*" /\ st.e = "deny")),
                  negation |-> be.negation]
        ELSE \* KeyError: the statement's prefix is not required
             [final |-> IF Get(f2, identifier) = {} THEN Pop(f2, identifier) ELSE f2,
              negation |-> be.negation]

(* _permissions_processing, lines 161-182: the statement loop from position i *)

RECURSIVE StatementsFrom(_, _, _, _, _, _)
StatementsFrom(i, m, req_resources_value, stmts, final, negation) ==
    IF i > Len(stmts) THEN final
    ELSE LET r == ProcessStatement(m, req_resources_value, stmts[i], final, negation)
         IN  StatementsFrom(i + 1, m, req_resources_value, stmts, r.final, r.negation)

(* _permissions_processing as a whole, every read of `mode` giving m *)

_permissions_processing(m, req_resources, user_permissions_for_resource, final_user_permissions) ==
    LET req_resources_value == ReqResourcesValue(req_resources)
    IN  IF Len(user_permissions_for_resource) = 0 /\ m = "black"
        THEN DefaultAllow(req_resources, final_user_permissions)
        ELSE LET final == StatementsFrom(1, m, req_resources_value, user_permissions_for_resource,
                                         final_user_permissions, {})
             IN  IF m = "black" THEN _black_mode_sanitize(final, req_resources_value) ELSE final

(* _match_permissions, lines 247-250: rbac[req_action], an empty dict on KeyError *)

StatementsOf(rb, req_action) == IF req_action \in DOMAIN rb THEN rb[req_action] ELSE <<>>

(* _match_permissions as a whole, from action position i, every read of `mode` giving m *)

RECURSIVE MatchFrom(_, _, _, _, _, _)
MatchFrom(i, m, acts, req_resources, rb, allow) ==
    IF i > Len(acts) THEN allow
    ELSE MatchFrom(i + 1, m, acts, req_resources, rb,
                   _permissions_processing(m, req_resources, StatementsOf(rb, acts[i]), allow))

_match_permissions(m, acts, req_resources, rb) == MatchFrom(1, m, acts, req_resources, rb, <<>>)

-----------------------------------------------------------------------------
(* _get_required_permissions.  A template is [p, kind, v]: the regex's group 1 *)
(* (without its trailing colon), whether group 2 is a {placeholder}, and the   *)
(* static value or the placeholder's name.  A keyword argument is [t, x]:      *)
(* t = "none" for None, "scalar" for a string (x its one value), "list" for a  *)
(* list (x its elements); a name outside DOMAIN kw is absent from kwargs.      *)

RECURSIVE ParseFrom(_, _, _, _)
ParseFrom(i, rs, kw, acc) ==
    IF i > Len(rs) THEN acc
    ELSE LET r == rs[i]
             tp == Append(acc.target_params, r.v)
         IN  IF r.kind = "dyn"
             THEN IF r.v \in DOMAIN kw
                  THEN LET params == kw[r.v]
                       IN  IF params.t = "list"
                           THEN IF Len(params.x) = 0
                                THEN [acc EXCEPT !.target_params = tp, !.error = TRUE]
                                ELSE ParseFrom(i + 1, rs, kw,
                                         [acc EXCEPT !.target_params = tp,
                                                     !.res_list = @ \o [j \in 1..Len(params.x) |->
                                                                          [p |-> r.p, v |-> params.x[j]]]])
                           ELSE IF params.t = "none" \/ params.x[1] = "*"
                                THEN ParseFrom(i + 1, rs, kw,
                                         [acc EXCEPT !.target_params = tp,
                                                     !.add_denied = TRUE,
                                                     !.res_list = Append(@, [p |-> r.p, v |-> "*"])])
                                ELSE ParseFrom(i + 1, rs, kw,
                                         [acc EXCEPT !.target_params = tp,
                                                     !.res_list = Append(@, [p |-> r.p, v |-> params.x[1]])])
                  ELSE ParseFrom(i + 1, rs, kw,
                           [acc EXCEPT !.target_params = tp,
                                       !.add_denied = FALSE,
                                       !.res_list = Append(@, [p |-> r.p, v |-> "*"])])
             ELSE ParseFrom(i + 1, rs, kw,
                      [acc EXCEPT !.target_params = tp,
                                  !.res_list = Append(@, [p |-> r.p, v |-> r.v])])

\* the parser with an add_denied that an absent placeholder does not clear
GetRequiredPermissionsFlagKept(rs, kw) ==
    [ParseFrom(1, rs, kw, [target_params |-> <<>>, res_list |-> <<>>, add_denied |-> TRUE,
                           error |-> FALSE])
        EXCEPT !.add_denied = TRUE]

_get_required_permissions(rs, kw) ==
    ParseFrom(1, rs, kw, [target_params |-> <<>>, res_list |-> <<>>, add_denied |-> TRUE,
                          error |-> FALSE])

-----------------------------------------------------------------------------
(* expose_resources.wrapper, lines 279-287: the enforcement loop from position *)
(* index.  allow[list(allow.keys())[index]] is the index-th entry of the dict; *)
(* a missing entry raises inside the try and ends in WazuhError(4000).         *)

RECURSIVE EnforceFrom(_, _, _, _)
EnforceFrom(index, targets, allow, kw) ==
    IF index > Len(targets) THEN [denied |-> FALSE, kwargs |-> kw]
    ELSE IF index > Len(allow) THEN [denied |-> TRUE, kwargs |-> kw]
    ELSE IF allow[index].s = {} THEN [denied |-> TRUE, kwargs |-> kw]
    ELSE LET target == targets[index]
             narrowed == [t |-> "narrowed", x |-> allow[index].s]
         IN  EnforceFrom(index + 1, targets, allow,
                 IF target # "*"
                 THEN [n \in DOMAIN kw \cup {target} |-> IF n = target THEN narrowed ELSE kw[n]]
                 ELSE kw)

\* the enforcement loop without the test for an empty permitted set
RECURSIVE EnforceNoEmptyCheckFrom(_, _, _, _)
EnforceNoEmptyCheckFrom(index, targets, allow, kw) ==
    IF index > Len(targets) THEN [denied |-> FALSE, kwargs |-> kw]
    ELSE IF index > Len(allow) THEN [denied |-> TRUE, kwargs |-> kw]
    ELSE LET target == targets[index]
             narrowed == [t |-> "narrowed", x |-> allow[index].s]
         IN  EnforceNoEmptyCheckFrom(index + 1, targets, allow,
                 IF target # "*"
                 THEN [n \in DOMAIN kw \cup {target} |-> IF n = target THEN narrowed ELSE kw[n]]
                 ELSE kw)

EnforceNoEmptyCheck(targets, allow, kw) == EnforceNoEmptyCheckFrom(1, targets, allow, kw)

Enforce(targets, allow, kw) == EnforceFrom(1, targets, allow, kw)

-----------------------------------------------------------------------------
(* Inputs *)

Effects == {"allow", "deny"}

Res(p, v) == [p |-> p, v |-> v]
Dyn(p, name) == [p |-> p, kind |-> "dyn", v |-> name]
Static(p, v) == [p |-> p, kind |-> "static", v |-> v]

None == [t |-> "none", x |-> <<>>]
Scalar(v) == [t |-> "scalar", x |-> <<v>>]
List(xs) == [t |-> "list", x |-> xs]

\* ordered dicts resource -> effect with at most n entries over the resources of pool
StmtSeqs(pool, n) ==
    UNION {{s \in [1..k -> {[p |-> r.p, v |-> r.v, e |-> e] : r \in pool, e \in Effects}] :
               \A i, j \in 1..k : i # j => Res(s[i].p, s[i].v) # Res(s[j].p, s[j].v)} :
           k \in 0..n}

\* kwargs['rbac']: some of the declared actions, each with its statements
RbacChoices(acts, pool, n) ==
    UNION {[D -> StmtSeqs(pool, n)] : D \in SUBSET {acts[i] : i \in 1..Len(acts)}}

ParamsOf(rs) == {rs[i].v : i \in {j \in 1..Len(rs) : rs[j].kind = "dyn"}}

\* keyword arguments: some of the placeholders' names, each bound to one of its choices
KwargsChoices(rs, choices) ==
    UNION {{f \in [D -> UNION {choices[n] : n \in D}] : \A n \in D : f[n] \in choices[n]} :
           D \in SUBSET ParamsOf(rs)}

InitWith(modes, actionLists, templateLists, choices, pool, n) ==
    /\ mode \in modes
    /\ actions \in actionLists
    /\ resources \in templateLists
    /\ kwargs \in KwargsChoices(resources, choices)
    /\ rbac \in RbacChoices(actions, pool, n)
    /\ target_params = <<>>
    /\ res_list = <<>>
    /\ add_denied = TRUE
    /\ allow_match = <<>>
    /\ act_i = 0
    /\ stmt_i = 0
    /\ black_negation = {}
    /\ original_kwargs = <<>>
    /\ func_called = FALSE
    /\ post_called = FALSE
    /\ pc = "start"

-----------------------------------------------------------------------------
(* Actions *)

\* switch_mode(m)
switch_mode(m) ==
    /\ mode' = IF m # "white" /\ m # "black" THEN mode ELSE m
    /\ UNCHANGED <<actions, resources, kwargs, rbac, target_params, res_list, add_denied,
                   allow_match, act_i, stmt_i, black_negation, original_kwargs, func_called,
                   post_called, pc>>

\* switch_mode called before the authorization is decided
SwitchModeIdle ==
    /\ pc = "start"
    /\ \E m \in {"white", "black", "grey"} : switch_mode(m)

\* switch_mode called by another thread at any point of the wrapper
SwitchModeAny == \E m \in {"white", "black", "grey"} : switch_mode(m)

\* wrapper, lines 273-274
Parse ==
    /\ pc = "start"
    /\ LET r == _get_required_permissions(resources, kwargs)
       IN  IF r.error
           THEN /\ pc' = "error"
                /\ UNCHANGED <<target_params, res_list, add_denied, act_i>>
           ELSE /\ pc' = "match"
                /\ target_params' = r.target_params
                /\ res_list' = r.res_list
                /\ add_denied' = r.add_denied
                /\ act_i' = 1
    /\ UNCHANGED <<mode, actions, resources, kwargs, rbac, allow_match, stmt_i, black_negation,
                   original_kwargs, func_called, post_called>>

\* _match_permissions line 246-250 and _permissions_processing lines 139-156
BeginProcessing ==
    /\ pc = "match"
    /\ act_i <= Len(actions)
    /\ LET stmts == StatementsOf(rbac, actions[act_i])
       IN  IF Len(stmts) = 0 /\ mode = "black"
           THEN /\ allow_match' = DefaultAllow(res_list, allow_match)
                /\ act_i' = act_i + 1
                /\ UNCHANGED <<pc, stmt_i, black_negation>>
           ELSE /\ pc' = "loop"
                /\ stmt_i' = 1
                /\ black_negation' = {}
                /\ UNCHANGED <<allow_match, act_i>>
    /\ UNCHANGED <<mode, actions, resources, kwargs, rbac, target_params, res_list, add_denied,
                   original_kwargs, func_called, post_called>>

\* _permissions_processing lines 161-182, one iteration
Statement ==
    /\ pc = "loop"
    /\ LET stmts == StatementsOf(rbac, actions[act_i])
       IN  /\ stmt_i <= Len(stmts)
           /\ LET r == ProcessStatement(mode, ReqResourcesValue(res_list), stmts[stmt_i],
                                        allow_match, black_negation)
              IN  /\ allow_match' = r.final
                  /\ black_negation' = r.negation
    /\ stmt_i' = stmt_i + 1
    /\ UNCHANGED <<mode, actions, resources, kwargs, rbac, target_params, res_list, add_denied,
                   act_i, original_kwargs, func_called, post_called, pc>>

\* _permissions_processing line 185 and the return to _match_permissions
EndProcessing ==
    /\ pc = "loop"
    /\ stmt_i > Len(StatementsOf(rbac, actions[act_i]))
    /\ allow_match' = IF mode = "black"
                      THEN _black_mode_sanitize(allow_match, ReqResourcesValue(res_list))
                      ELSE allow_match
    /\ act_i' = act_i + 1
    /\ pc' = "match"
    /\ UNCHANGED <<mode, actions, resources, kwargs, rbac, target_params, res_list, add_denied,
                   stmt_i, black_negation, original_kwargs, func_called, post_called>>

\* wrapper, lines 275-287
Gate ==
    /\ pc = "match"
    /\ act_i > Len(actions)
    /\ original_kwargs' = kwargs
    /\ LET r == Enforce(target_params, allow_match, kwargs)
       IN  /\ kwargs' = r.kwargs
           /\ pc' = IF r.denied THEN "denied" ELSE "allowed"
    /\ UNCHANGED <<mode, actions, resources, rbac, target_params, res_list, add_denied,
                   allow_match, act_i, stmt_i, black_negation, func_called, post_called>>

\* wrapper, line 288
CallFunc ==
    /\ pc = "allowed"
    /\ func_called' = TRUE
    /\ pc' = "called"
    /\ UNCHANGED <<mode, actions, resources, kwargs, rbac, target_params, res_list, add_denied,
                   allow_match, act_i, stmt_i, black_negation, original_kwargs, post_called>>

\* wrapper, lines 289-293
PostProcess ==
    /\ pc = "called"
    /\ post_called' = TRUE
    /\ pc' = "done"
    /\ UNCHANGED <<mode, actions, resources, kwargs, rbac, target_params, res_list, add_denied,
                   allow_match, act_i, stmt_i, black_negation, original_kwargs, func_called>>

Authorize == Parse \/ BeginProcessing \/ Statement \/ EndProcessing \/ Gate \/ CallFunc \/ PostProcess

-----------------------------------------------------------------------------
(* Specifications *)

Modes == {"white", "black"}

\* the gate: one or two declared actions, one or two templates
GateActionLists == {<<"agent:read">>, <<"agent:read", "agent:delete">>}
GateTemplates == {Dyn("agent:id", "agent_list"), Dyn("group:id", "group_list"), Static("*:*", "*")}
GateTemplateLists ==
    {<<t>> : t \in GateTemplates} \cup {<<t, u>> : t \in GateTemplates, u \in GateTemplates}
GateKwargs ==
    [n \in {"agent_list", "group_list"} |->
        IF n = "agent_list"
        THEN {None, Scalar("*"), Scalar("001"), List(<<>>), List(<<"001", "010">>)}
        ELSE {None, List(<<"groupA">>)}]
GatePool == {Res("agent:id", "*"), Res("agent:id", "001"), Res("group:id", "*")}

Init == InitWith(Modes, GateActionLists, GateTemplateLists, GateKwargs, GatePool, MaxStmtsGate)

Next == SwitchModeIdle \/ Authorize

Spec == Init /\ [][Next]_vars

\* the gate with switch_mode interleaved
NextConc == SwitchModeAny \/ Authorize

SpecConc == Init /\ [][NextConc]_vars

\* the resolver: one action, one template, longer statement lists
ResolveTemplateLists ==
    {<<Dyn("agent:id", "agent_list")>>, <<Dyn("agent:group", "group_id")>>,
     <<Dyn("node:id", "node_list")>>, <<Static("*:*", "*")>>}
ResolveKwargs ==
    [n \in {"agent_list", "group_id", "node_list"} |->
        CASE n = "agent_list" ->
                {None, Scalar("001"), List(<<"001">>), List(<<"010">>), List(<<"001", "010">>),
                 List(<<"001", "999">>)}
          [] n = "group_id" -> {Scalar("groupA")}
          [] n = "node_list" -> {None, List(<<"n1">>)}]
ResolvePool ==
    {Res("agent:id", "*"), Res("agent:id", "001"), Res("agent:group", "groupA"),
     Res("agent:group", "*"), Res("node:id", "*"), Res("*:*", "*")}

InitResolve ==
    InitWith(Modes, {<<"agent:read">>}, ResolveTemplateLists, ResolveKwargs, ResolvePool, MaxStmts)

SpecResolve == InitResolve /\ [][Next]_vars

-----------------------------------------------------------------------------
(* Properties *)

\* _match_permissions has returned: allow_match is the wrapper's `allow`
Resolved == pc \in {"denied", "allowed", "called", "done"}

\* the required values per prefix of the current call
ReqValues == ReqResourcesValue(res_list)

\* the statements of the only declared action (resolver specification)
Stmts == StatementsOf(rbac, actions[1])

Covers(st, p, v) == StatementIdentifier(st) = p /\ (st.v = "*" \/ v \in _expand_resource(st))

\* the last statement of stmts covering v is an allow
LastCoveringAllows(stmts, p, v) ==
    \E i \in 1..Len(stmts) :
        /\ Covers(stmts[i], p, v)
        /\ stmts[i].e = "allow"
        /\ \A j \in (i + 1)..Len(stmts) : ~Covers(stmts[j], p, v)

C6_DenyAllPrecedence ==
    Resolved =>
        \A p \in DOMAIN ReqValues :
            (\E i \in 1..Len(Stmts) :
                /\ StatementIdentifier(Stmts[i]) = p
                /\ Stmts[i].v = "*"
                /\ Stmts[i].e = "deny"
                /\ \A j \in (i + 1)..Len(Stmts) : StatementIdentifier(Stmts[j]) # p)
            => GetOrEmpty(allow_match, p) = {}

\* C6 witness: two allows for agent ids, a wildcard one among them, followed by the
\* wildcard deny, with two agents required: the call has been denied
C6_Witness ==
    /\ pc = "denied"
    /\ Len(Stmts) = 3
    /\ Stmts[1].e = "allow" /\ StatementIdentifier(Stmts[1]) = "agent:id"
    /\ Stmts[2].e = "allow" /\ StatementIdentifier(Stmts[2]) = "agent:id"
    /\ Stmts[3] = [p |-> "agent:id", v |-> "*", e |-> "deny"]
    /\ \E i \in 1..2 : Stmts[i].v = "*"
    /\ "agent:id" \in DOMAIN ReqValues
    /\ Cardinality(ReqValues["agent:id"]) = 2

\* the statements with every effect turned into a deny
AllDeny(stmts) == [i \in 1..Len(stmts) |-> [stmts[i] EXCEPT !.e = "deny"]]

\* the full expansion of a required prefix, restricted to the required values unless
\* these contain "*"
FullExpansion(p) ==
    IF "*" \in ReqValues[p]
    THEN _expand_resource(Res(p, "*"))
    ELSE _expand_resource(Res(p, "*")) \cap ReqValues[p]

\* what the required resources of a prefix expand to
RequiredExpansion(p) == UNION {_expand_resource(Res(p, v)) : v \in ReqValues[p]}

\* the prefixes whose wildcard a directory enumerates
EnumeratedPrefixes == {"agent:id", "group:id", "role:id", "policy:id", "user:id"}

\* C7: for allow-only statements resolved in white mode, and the same statements turned
\* into denies resolved in black mode, the two permitted sets of every required prefix
\* that a directory enumerates are disjoint and their union is the full expansion of the
\* prefix restricted to the required values (what the required resources expand to
\* being accepted as well, for required values outside the directory)
C7_ModeDuality ==
    (Resolved /\ mode = "white" /\ \A i \in 1..Len(Stmts) : Stmts[i].e = "allow") =>
        LET black == _permissions_processing("black", res_list, AllDeny(Stmts), <<>>)
        IN  \A p \in DOMAIN ReqValues \cap EnumeratedPrefixes :
                LET w == GetOrEmpty(allow_match, p)
                    b == GetOrEmpty(black, p)
                IN  /\ w \cap b = {}
                    /\ \/ w \cup b = FullExpansion(p)
                       \/ w \cup b = RequiredExpansion(p)

\* C8 as stated (scenario D): white mode, required agent:group:groupA, the only statement
\* allows agent:group:groupA: the final permissions are {agent:id: members} and the call
\* is not rejected
C8_GroupRequiredGranted ==
    (/\ Resolved
     /\ mode = "white"
     /\ res_list = <<Res("agent:group", "groupA")>>
     /\ Stmts = <<[p |-> "agent:group", v |-> "groupA", e |-> "allow"]>>)
    => /\ allow_match = <<[k |-> "agent:id", s |-> GroupMembers["groupA"]]>>
       /\ pc # "denied"

\* C8 amended: white mode, the only statement allows agent:group:groupA.  When agent ids
\* are required (agent:id:* or a list of ids) the final permissions are {agent:id: the
\* members of the group}, restricted to the required ids unless "*" is required, and the
\* call is rejected only when that set is empty; when agent:group:groupA itself is
\* required the final permissions are empty and the call is rejected.
C8_GroupGrantsAgentIds ==
    (/\ Resolved
     /\ mode = "white"
     /\ Stmts = <<[p |-> "agent:group", v |-> "groupA", e |-> "allow"]>>)
    => /\ DOMAIN ReqValues = {"agent:id"} =>
            LET granted == IF "*" \in ReqValues["agent:id"]
                           THEN GroupMembers["groupA"]
                           ELSE GroupMembers["groupA"] \cap ReqValues["agent:id"]
            IN  /\ allow_match = <<[k |-> "agent:id", s |-> granted]>>
                /\ pc = "denied" <=> granted = {}
       /\ DOMAIN ReqValues = {"agent:group"} => allow_match = <<>> /\ pc = "denied"

\* C8 witness: every agent id required, the group allowed: its two members are permitted
\* and the call has gone through
C8_Witness ==
    /\ pc = "called"
    /\ mode = "white"
    /\ res_list = <<Res("agent:id", "*")>>
    /\ Stmts = <<[p |-> "agent:group", v |-> "groupA", e |-> "allow"]>>
    /\ allow_match = <<[k |-> "agent:id", s |-> {"010", "011"}]>>

\* C9: with switch_mode interleaved, the permissions a call resolves are those of the
\* whole call resolved in white mode or those of the whole call resolved in black mode
C9_SingleModePerDecision ==
    Resolved =>
        \/ allow_match = _match_permissions("white", actions, res_list, rbac)
        \/ allow_match = _match_permissions("black", actions, res_list, rbac)

\* the permissions one declared action resolves to on its own
ActionAlone(a) == _permissions_processing(mode, res_list, StatementsOf(rbac, a), <<>>)

\* C3: a call that is let through has, for every target position, a non-empty permitted
\* set under every declared action resolved on its own, and permits for the position's
\* prefix only values that every declared action permits
C3_EveryActionPermits ==
    pc = "allowed" =>
        \A i \in 1..Len(resources) : \A j \in 1..Len(actions) :
            LET alone == GetOrEmpty(ActionAlone(actions[j]), resources[i].p)
            IN  /\ alone # {}
                /\ GetOrEmpty(allow_match, resources[i].p) \subseteq alone

\* C4: in a call that is let through, the argument of every target position other than
\* the wildcard marker is the permitted set resolved for the prefix of the position's
\* template
C4_NarrowedToOwnPrefix ==
    pc = "allowed" =>
        \A i \in 1..Len(resources) :
            target_params[i] # "*" =>
                /\ target_params[i] \in DOMAIN kwargs
                /\ kwargs[target_params[i]] =
                      [t |-> "narrowed", x |-> GetOrEmpty(allow_match, resources[i].p)]

\* the placeholder of template i is absent from the call arguments
Absent(i) == resources[i].kind = "dyn" /\ resources[i].v \notin DOMAIN kwargs

\* the placeholder of template i is bound to None or to "*"
BoundToWildcard(i) ==
    /\ resources[i].kind = "dyn"
    /\ resources[i].v \in DOMAIN kwargs
    /\ \/ kwargs[resources[i].v].t = "none"
       \/ kwargs[resources[i].v].t = "scalar" /\ kwargs[resources[i].v].x = <<"*">>

\* the parser has returned and the gate has not yet touched the arguments
Parsed == pc \in {"match", "loop"}

====
